---- MODULE Spec2Model ----
(***************************************************************************)
(* Rotation-and-cache scheduler of turing-smart-screen-python:             *)
(*   library/sensors/sensors_rss.py   Feed (source cache, refresh threads) *)
(*   library/stats.py                 Weather.stats, Rss.stats (ticks)     *)
(*   library/sensors/sensors_weather.py  WeatherApi (synchronous fetch)    *)
(*                                                                         *)
(* Time is counted in units of 1/SubSec second, so that int(now), the      *)
(* float floor division now // ttl and now % 1 are real conversions.       *)
(* A value v of the program in seconds is v * SubSec units here.           *)
(***************************************************************************)
EXTENDS Integers, Sequences, FiniteSets, TLC

\* ---------------------------------------------------------------- bounds
\* clock units per second
SubSec == 2
\* host-loop calls of Weather.stats / Rss.stats in one behaviour
MaxTicks == 3
\* clock advances in one behaviour
MaxClock == 2
\* refresh threads that are past line 41 of _update at the same time, when
\* the Feed objects are driven directly
MaxThreads == 2
\* the same, when they are driven by Rss.stats under the host loop
HostThreads == 1
\* threads started by get_items that have not yet run line 41, per feed
MaxStarted == 2
\* calls of Rss.stats, and clock advances, in one behaviour of a rotation
MaxRotationTicks == 5
MaxRotationClock == 4

\* ----------------------------------------------------- program constants
\* sensors_rss.py:35  staleness threshold of a Feed, in seconds
StaleSeconds == 1800
\* stats.py:937  default TTL of a weather image, in seconds
DefaultCacheSeconds == 1800
\* stats.py:932, 1008  default and minimum slot duration, in seconds
DefaultDuration == 10
MinDuration == 2
\* sensors_rss.py:17, stats.py:991  default number of items a feed returns
DefaultLimit == 10

Max(a, b) == IF a >= b THEN a ELSE b
Take(s, n) == SubSeq(s, 1, IF n < Len(s) THEN n ELSE Len(s))

\* int(now): whole seconds of a clock value
IntSec(t) == t \div SubSec
\* a number of seconds as a clock value
Sec(s) == s * SubSec

\* ------------------------------------------------------------ RSS config
\* An entry of a parsed feed is its title; NoTitle is an entry that has no
\* title (or link) attribute, on which entry.title raises AttributeError.
NoTitle == "<untitled>"
EntryTitles == {"a", "b"}

\* What feedparser.parse(...)["entries"] can return.
ParseResults == {<<"a">>, <<"b", "a">>, <<"a", NoTitle>>}

\* custom.RSS of config.yaml: the feeds of the group.  A feed without TITLE
\* is titled by its URL (line 20).  Two feeds may carry the same TITLE.
FeedConf(url, title, limit) == [URL |-> url, TITLE |-> title, LIMIT |-> limit]
RssConfigs ==
    { << >>,
      << FeedConf("u1", "", DefaultLimit) >>,
      << FeedConf("u1", "T", 1) >> }

TitleOf(c) == IF c.TITLE # "" THEN c.TITLE ELSE c.URL
Titles == {"u1", "T"}

\* ---------------------------------------------------------- side cache
\* The file .cache/rss/<title>.json: absent, unreadable as JSON, or holding
\* a list of items, with its modification time.
FileAbsent == [kind |-> "absent", items |-> << >>, mtime |-> 0]
FileCorrupt(t) == [kind |-> "corrupt", items |-> << >>, mtime |-> t]
FileOk(items, t) == [kind |-> "ok", items |-> items, mtime |-> t]

VARIABLES
    now,          \* time.time(), in clock units
    clocks,       \* clock advances so far
    ticks,        \* stats() calls so far
    host,         \* the group whose stats() the host loop called last
    rss_config,   \* config.CONFIG_DATA["custom"]["RSS"]
    file,         \* side-cache file of each title
    feed,         \* the Feed objects of Rss.cache["feed_list"], by position
    started,      \* threads started on _update, not yet at line 41, per feed
    thr,          \* threads inside _update
    published,    \* per feed, the list the seed or the last line 67 stored
    ended,        \* per feed, how the _update call that ended last ended
    rdraw,        \* config.THEME_DATA["STATS"]["RSS"]["TEXT"]
    rcache,       \* Rss.cache
    rout,         \* what the last Rss.stats call did
    wdraw,        \* config.THEME_DATA["STATS"]["WEATHER"]["GRAPH"]
    wconf,        \* config.CONFIG_DATA["custom"]["WEATHER"]
    wcache,       \* Weather.cache
    wout          \* what the last Weather.stats call did

feedVars == <<rss_config, file, feed, started, thr, published, ended>>
hostVars == <<now, clocks, ticks, host, rdraw, rcache, rout, wdraw, wconf, wcache, wout>>
rssVars == <<rdraw, rcache, rout>>
weatherVars == <<wdraw, wconf, wcache, wout>>
vars == <<now, clocks, ticks, host, feedVars, rssVars, weatherVars>>

\* ------------------------------------------------------------ class Feed
FeedIds == 1..2
NoFeed == [made |-> FALSE, title |-> "", limit |-> 0,
           _feeds |-> << >>, _updating |-> FALSE, _updated |-> 0]

\* Feed.__init__, lines 19-30: the object before the get_items() of line 32.
\* A file that exists and cannot be loaded makes json.load raise (line 29).
FeedInitRaises(conf) == file[TitleOf(conf)].kind = "corrupt"
\* (a constructor that does not take the time of the file)
FeedInitObjCold(conf) ==
    LET f == file[TitleOf(conf)] IN
    [made |-> TRUE, title |-> TitleOf(conf), limit |-> conf.LIMIT,
     _feeds |-> IF f.kind = "ok" THEN f.items ELSE << >>,
     _updating |-> FALSE,
     _updated |-> 0]
FeedInitObj(conf) ==
    LET f == file[TitleOf(conf)] IN
    [made |-> TRUE, title |-> TitleOf(conf), limit |-> conf.LIMIT,
     _feeds |-> IF f.kind = "ok" THEN f.items ELSE << >>,
     _updating |-> FALSE,
     _updated |-> IF f.kind = "ok" THEN f.mtime ELSE 0]

\* get_items, line 35: whether the call starts a thread on _update
IsStale(fd, t) == t - fd._updated > Sec(StaleSeconds)
\* (a get_items that hands out nothing while a refresh is running)
ItemsOfIdle(fd) == IF fd._updating THEN << >> ELSE Take(fd._feeds, fd.limit)
\* get_items, line 38
ItemsOf(fd) == Take(fd._feeds, fd.limit)

\* A thread inside _update: its position, its Feed (0: a Feed object that no
\* feed_list holds any more), the title of that Feed, the converted items,
\* and the threads of the same Feed that were inside _update when it came in
\* (they were started before it).
FreeThread == [pc |-> "free", feed |-> 0, title |-> "", items |-> << >>, after |-> {}]
ThreadIds == DOMAIN thr
FreeSlots(th) == {t \in ThreadIds : th[t].pc = "free"}
\* the slot a thread entering _update's body takes
NewSlot(th) == CHOOSE t \in FreeSlots(th) : \A u \in FreeSlots(th) : t <= u

\* fetches (feedparser.parse calls) of feed f in flight
InFlight(f) == {t \in ThreadIds : thr[t].pc = "fetch" /\ thr[t].feed = f}
\* threads of feed f past line 44 and not yet returned
Running(f) ==
    {t \in ThreadIds : thr[t].feed = f
        /\ thr[t].pc \in {"fetch", "write", "publish", "stamp"}}

\* the threads when thread t has returned from _update (or died in it)
Returned(th, t) ==
    [u \in DOMAIN th |-> IF u = t THEN FreeThread ELSE [th[u] EXCEPT !.after = @ \ {t}]]

SetFeed(f, field, v) == [feed EXCEPT ![f] = [@ EXCEPT ![field] = v]]

\* _update line 41, flag already set: return False without fetching
UpdateSkip(f) ==
    /\ started[f] > 0
    /\ feed[f]._updating
    /\ started' = [started EXCEPT ![f] = @ - 1]
    /\ ended' = [ended EXCEPT ![f] = "skipped"]
    /\ UNCHANGED <<rss_config, file, feed, thr, published, hostVars>>

\* _update line 41, flag clear: the thread goes on to line 44
UpdateCheck(f) ==
    /\ started[f] > 0
    /\ ~feed[f]._updating
    /\ FreeSlots(thr) # {}
    /\ started' = [started EXCEPT ![f] = @ - 1]
    /\ thr' = [thr EXCEPT ![NewSlot(thr)] =
                 [pc |-> "set", feed |-> f, title |-> feed[f].title, items |-> << >>,
                  after |-> {u \in ThreadIds : thr[u].pc # "free" /\ thr[u].feed = f}]]
    /\ UNCHANGED <<rss_config, file, feed, published, ended, hostVars>>

\* _update line 44, then the call of feedparser.parse begins (line 46)
UpdateSet(t) ==
    /\ thr[t].pc = "set"
    /\ feed' = SetFeed(thr[t].feed, "_updating", TRUE)
    /\ thr' = [thr EXCEPT ![t].pc = "fetch"]
    /\ UNCHANGED <<rss_config, file, started, published, ended, hostVars>>

\* (an except clause that also drops the items)
FetchFailedClears(fd) == [fd EXCEPT !._updating = FALSE, !._feeds = << >>]
\* lines 47-50: what the except clause does to the Feed
FetchFailed(fd) == [fd EXCEPT !._updating = FALSE]

\* lines 46-50: parse raised; log, clear the flag, return False
UpdateFetchRaise(t) ==
    /\ thr[t].pc = "fetch"
    /\ feed' = [feed EXCEPT ![thr[t].feed] = FetchFailed(@)]
    /\ thr' = Returned(thr, t)
    /\ ended' = [ended EXCEPT ![thr[t].feed] = "raised"]
    /\ UNCHANGED <<rss_config, file, started, published, hostVars>>

\* lines 52-60: an entry without title (or link) raises AttributeError at
\* line 55, outside any try: the thread ends there
ConvertRaises(parsed) == \E i \in 1..Len(parsed) : parsed[i] = NoTitle

\* lines 46, 52-60: parse returned and the entries are converted
UpdateFetchReturn(t, parsed) ==
    /\ thr[t].pc = "fetch"
    /\ thr' = IF ConvertRaises(parsed) THEN Returned(thr, t)
               ELSE [thr EXCEPT ![t] = [@ EXCEPT !.pc = "write", !.items = parsed]]
    /\ ended' = IF ConvertRaises(parsed) THEN [ended EXCEPT ![thr[t].feed] = "died"] ELSE ended
    /\ UNCHANGED <<rss_config, file, feed, started, published, hostVars>>

\* (a write whose failure ends the refresh)
UpdateWriteAborts(t, ok) ==
    /\ thr[t].pc = "write"
    /\ file' = IF ok THEN [file EXCEPT ![thr[t].title] = FileOk(thr[t].items, now)]
               ELSE file
    /\ thr' = IF ok THEN [thr EXCEPT ![t].pc = "publish"] ELSE Returned(thr, t)
    /\ ended' = IF ok THEN ended ELSE [ended EXCEPT ![thr[t].feed] = "died"]
    /\ UNCHANGED <<rss_config, feed, started, published, hostVars>>
\* lines 61-66: write the side cache; a failure is logged only
UpdateWrite(t, ok) ==
    /\ thr[t].pc = "write"
    /\ file' = IF ok THEN [file EXCEPT ![thr[t].title] = FileOk(thr[t].items, now)]
               ELSE file
    /\ thr' = [thr EXCEPT ![t].pc = "publish"]
    /\ UNCHANGED <<rss_config, feed, started, published, ended, hostVars>>

\* line 67
UpdatePublish(t) ==
    /\ thr[t].pc = "publish"
    /\ feed' = SetFeed(thr[t].feed, "_feeds", thr[t].items)
    /\ published' = [published EXCEPT ![thr[t].feed] = thr[t].items]
    /\ thr' = [thr EXCEPT ![t].pc = "stamp"]
    /\ UNCHANGED <<rss_config, file, started, ended, hostVars>>

\* lines 68-71: stamp, log, clear the flag, return True.  No other thread
\* can tell the state between line 68 and line 70 from the one before line 68
\* (get_items reads _updated and _feeds, line 41 reads _updating), so the
\* two assignments are one step.
UpdateStamp(t) ==
    /\ thr[t].pc = "stamp"
    /\ feed' = [feed EXCEPT ![thr[t].feed] = [@ EXCEPT !._updated = now, !._updating = FALSE]]
    /\ thr' = Returned(thr, t)
    /\ ended' = [ended EXCEPT ![thr[t].feed] = "done"]
    /\ UNCHANGED <<rss_config, file, started, published, hostVars>>

\* A step of some refresh thread.
Worker ==
    \/ \E f \in FeedIds : UpdateSkip(f)
    \/ \E f \in FeedIds : UpdateCheck(f)
    \/ \E t \in ThreadIds : UpdateSet(t)
    \/ \E t \in ThreadIds : UpdateFetchRaise(t)
    \/ \E t \in ThreadIds : \E parsed \in ParseResults : UpdateFetchReturn(t, parsed)
    \/ \E t \in ThreadIds : \E ok \in BOOLEAN : UpdateWrite(t, ok)
    \/ \E t \in ThreadIds : UpdatePublish(t)
    \/ \E t \in ThreadIds : UpdateStamp(t)

\* ------------------------------------------------------------- the clock
\* Time passes by a second, or by more than the default TTL and the
\* staleness threshold.
Deltas == {Sec(1), Sec(StaleSeconds) + SubSec}
WeatherDeltas == Deltas \cup {Sec(MinDuration), Sec(DefaultDuration), Sec(595), Sec(600)}
FeedDeltas == {Sec(StaleSeconds) + 1}
Advance(d) ==
    /\ clocks < MaxClock
    /\ clocks' = clocks + 1
    /\ now' = now + d
    /\ UNCHANGED <<ticks, host, feedVars, rssVars, weatherVars>>

\* ------------------------------------------------- both rotation groups
\* (a duration taken from the theme as it is)
DurationUnclamped(draw) == draw.DURATION
\* stats.py:932, 1008   duration = max(2, draw_config.get("DURATION", 10))
Duration(draw) == Max(MinDuration, draw.DURATION)
\* int(now) // duration
Slot(t, dur) == IntSec(t) \div dur
\* (a crossfade in every second of the slot)
BlendNowAnySecond(draw, t, last_image) == draw.ANIMATION /\ last_image # << >>
\* stats.py:956, 1031  the condition of the crossfade branch
BlendNow(draw, t, last_image) ==
    draw.ANIMATION /\ IntSec(t) % Duration(draw) = 0 /\ last_image # << >>
\* int(now % 1 * 256)
Alpha(t) == ((t % SubSec) * 256) \div SubSec

\* (a comparison that finds every tick a transition)
ChangedAlways(index, last_index) == TRUE
\* stats.py:952, 1029  index != self.cache["last_index"]
Changed(index, last_index) == index # last_index
\* (a tick that never records what it drew)
NextLastKept(old, new, draws, blend) == old
\* (a tick that records a crossfade as drawn)
NextLastAlways(old, new, draws, blend) == IF draws THEN new ELSE old
\* stats.py:964-965, 1038-1039: last_index and last_image are assigned in
\* the else branch only, when the frame is not a crossfade
NextLast(old, new, draws, blend) == IF draws /\ ~blend THEN new ELSE old

\* A frame given to display.lcd: the image itself, or last_image with the
\* new image pasted over it at the given alpha.
Plain(image) == [kind |-> "plain", old |-> << >>, new |-> image, alpha |-> 0]
Blend(last, image, t) == [kind |-> "blend", old |-> last, new |-> image, alpha |-> Alpha(t)]

\* What a stats() call did: whether an exception left it, the frames it
\* sent to the display, the remote requests it made on the thread that
\* called it, the index it computed (-1: none) and the time it read; for
\* Weather the key it looked up and whether that was a cache hit, a render
\* or a failed attempt; for Rss the feeds it called get_items on, those of
\* them that were refreshing, and what each call returned.
Quiet == [raised |-> FALSE, frames |-> << >>, fetched |-> 0, index |-> -1, at |-> 0,
          key |-> "", render |-> "none",
          called |-> {}, busy |-> {}, got |-> [f \in FeedIds |-> << >>]]

\* -------------------------------------------------------------- class Rss
RssEmpty == [set |-> FALSE, show |-> FALSE, item_list |-> << >>,
             last_index |-> -1, last_image |-> << >>, offset |-> 0]
\* lines 980-982
RssDisabled == [RssEmpty EXCEPT !.set = TRUE]
\* lines 994-1002
RssFresh == [RssEmpty EXCEPT !.set = TRUE, !.show = TRUE]

\* display_themed_value(draw_config, text): the text is drawn and its
\* image returned
TextImage(text) == <<text>>
Loading == "loading"

\* (an index taken from the clock alone, as Weather.stats takes it)
RssIndexNoOffset(t, dur, item_list, offset) ==
    IF item_list = << >> THEN 0 ELSE Slot(t, dur) % Len(item_list)
\* (an index taken from the seconds, not from the slots)
RssIndexNoDiv(t, dur, item_list, offset) ==
    IF item_list = << >> THEN 0 ELSE (IntSec(t) - offset) % Len(item_list)
\* (an index that is not reduced to the length of the list)
RssIndexNoMod(t, dur, item_list, offset) ==
    IF item_list = << >> THEN 0 ELSE Slot(t, dur) - offset
\* line 1012
RssIndex(t, dur, item_list, offset) ==
    IF item_list = << >> THEN 0 ELSE (Slot(t, dur) - offset) % Len(item_list)
\* (a list rebuilt by every tick)
RebuildsAlways(index) == TRUE
\* line 1013: the tick rebuilds item_list from the feeds
Rebuilds(index) == index = 0

\* whether get_items runs _update on the thread that calls it: never, the
\* refresh is the target of the thread started at lines 36-37
GetItemsOnCaller(fd, t) == FALSE

\* Feed.get_items called on feed f by any caller
GetItems(f) ==
    /\ ticks < MaxTicks
    /\ ticks' = ticks + 1
    /\ host' = "get_items"
    /\ feed[f].made
    /\ started[f] + (IF IsStale(feed[f], now) THEN 1 ELSE 0) <= MaxStarted
    /\ started' = [started EXCEPT ![f] = @ + IF IsStale(feed[f], now) THEN 1 ELSE 0]
    /\ rout' = [Quiet EXCEPT
           !.fetched = IF GetItemsOnCaller(feed[f], now) THEN 1 ELSE 0,
           !.called = {f},
           !.busy = IF feed[f]._updating THEN {f} ELSE {},
           !.got = [@ EXCEPT ![f] = ItemsOf(feed[f])]]
    /\ UNCHANGED <<now, clocks, rss_config, file, feed, thr, published, ended, rdraw, rcache, weatherVars>>

\* lines 1014-1021: the list built from the feeds' get_items()
RECURSIVE BuildItems(_, _)
BuildItems(fds, n) ==
    IF n = 0 THEN << >>
    ELSE BuildItems(fds, n - 1) \o
         (IF ItemsOf(fds[n]) = << >> THEN << >> ELSE <<fds[n].title>> \o ItemsOf(fds[n]))

\* Rss.stats, lines 975-1039
RssStats ==
    /\ ticks' = ticks + 1
    /\ host' = "rss"
    /\ UNCHANGED <<now, clocks, rss_config, file, thr, ended, rdraw, weatherVars>>
    /\ LET n == Len(rss_config)
           first == ~rcache.set
           off == first /\ (~rdraw.SHOW \/ n = 0)
           initRaises == first /\ ~off /\ \E i \in 1..n : FeedInitRaises(rss_config[i])
       IN
       IF off THEN
           /\ rcache' = RssDisabled
           /\ rout' = Quiet
           /\ UNCHANGED <<feed, started, published>>
       ELSE IF initRaises THEN
           \* line 29 raises inside line 988: the cache stays empty.  In
           \* RssConfigs the first Feed is the one that raises, so no Feed
           \* object (and no thread) outlives the failed construction.
           /\ FeedInitRaises(rss_config[1])
           /\ rout' = [Quiet EXCEPT !.raised = TRUE, !.frames = <<Plain(TextImage(Loading))>>]
           /\ UNCHANGED <<rcache, feed, started, published>>
       ELSE IF ~first /\ ~rcache.show THEN
           /\ rout' = Quiet
           /\ UNCHANGED <<rcache, feed, started, published>>
       ELSE
           LET c == IF first THEN RssFresh ELSE rcache
               \* lines 986-992, each Feed.__init__ ending in get_items()
               fds == IF first
                      THEN [f \in FeedIds |-> IF f <= n THEN FeedInitObj(rss_config[f]) ELSE NoFeed]
                      ELSE feed
               st0 == IF first
                      THEN [f \in FeedIds |-> IF f <= n /\ IsStale(fds[f], now) THEN 1 ELSE 0]
                      ELSE started
               pub == IF first THEN [f \in FeedIds |-> fds[f]._feeds] ELSE published
               dur == Duration(rdraw)
               index == RssIndex(now, dur, c.item_list, c.offset)
               rebuild == Rebuilds(index)
               item_list == IF rebuild THEN BuildItems(fds, n) ELSE c.item_list
               st1 == IF rebuild
                      THEN [f \in FeedIds |-> st0[f] + IF f <= n /\ IsStale(fds[f], now) THEN 1 ELSE 0]
                      ELSE st0
               called == IF rebuild THEN 1..n ELSE {}
               \* line 1028: IndexError when the list ends before the index
               indexError == item_list # << >> /\ ~(index < Len(item_list))
               draws == item_list # << >> /\ ~indexError /\ Changed(index, c.last_index)
               image == TextImage(item_list[index + 1])
               blend == draws /\ BlendNow(rdraw, now, c.last_image)
           IN
           /\ \A f \in FeedIds : st1[f] <= MaxStarted
           /\ feed' = fds
           /\ started' = st1
           /\ published' = pub
           /\ rcache' = [c EXCEPT
                  !.item_list = item_list,
                  !.offset = IF rebuild THEN Slot(now, dur) ELSE @,
                  !.last_index = NextLast(@, index, draws, blend),
                  !.last_image = NextLast(@, image, draws, blend)]
           /\ rout' = [Quiet EXCEPT
                       !.raised = indexError,
                       !.frames = (IF first THEN <<Plain(TextImage(Loading))>> ELSE << >>)
                                  \o (IF draws THEN <<Plain(image)>> ELSE << >>)
                                  \o (IF blend THEN <<Blend(c.last_image, image, now)>> ELSE << >>),
                       !.fetched = Cardinality({f \in called : GetItemsOnCaller(fds[f], now)}),
                       !.index = index,
                       !.at = now,
                       !.called = called,
                       !.busy = {f \in called : fds[f]._updating},
                       !.got = [f \in FeedIds |-> IF f \in called THEN ItemsOf(fds[f]) ELSE << >>]]

\* Rss.stats called by the host loop
RssTick ==
    /\ ticks < MaxTicks
    /\ RssStats

\* ---------------------------------------------------------- class Weather
\* IMAGES_LIST, lines 836-870: key and cache_seconds (default: line 937)
Image(key, cache_seconds) == [key |-> key, cache_seconds |-> cache_seconds]
IMAGES_LIST ==
    << Image("current_weather", 600),
       Image("hourly_forecast", DefaultCacheSeconds),
       Image("daily_forecast", 21600),
       Image("warning", DefaultCacheSeconds),
       Image("air_quality", DefaultCacheSeconds),
       Image("precipitation", 600) >>
Keys == {IMAGES_LIST[i].key : i \in 1..Len(IMAGES_LIST)}

NoEntry == [has |-> FALSE, image |-> << >>, time |-> 0]
WeatherEmpty == [set |-> FALSE, show |-> FALSE, images |-> [k \in Keys |-> NoEntry],
                 last_index |-> -1, last_image |-> << >>]
\* (a first tick that stores nothing when the group is not enabled)
WeatherDisabledForgotten == WeatherEmpty
\* lines 879-881
WeatherDisabled == [WeatherEmpty EXCEPT !.set = TRUE]
\* (a cache that starts with last_index 0)
WeatherFreshIndexed ==
    [WeatherEmpty EXCEPT !.set = TRUE, !.show = TRUE, !.last_index = 0]
\* lines 918-926
WeatherFresh == [WeatherEmpty EXCEPT !.set = TRUE, !.show = TRUE]

\* line 934
WeatherIndex(t, dur) == Slot(t, dur) % Len(IMAGES_LIST)
\* (an entry that expires when its age reaches cache_seconds)
ExpiredAtTtl(entry, t, cache_seconds) == t - entry.time >= Sec(cache_seconds)
\* line 938
Expired(entry, t, cache_seconds) == t - entry.time > Sec(cache_seconds)
\* (an entry stamped with the time it was rendered)
BucketNow(t, cache_seconds) == t
\* line 944   now // cache_seconds * cache_seconds
Bucket(t, cache_seconds) == (t \div Sec(cache_seconds)) * Sec(cache_seconds)
\* lines 940-941: the image drawn from the data fetched at t
Rendered(key, t) == <<key, t>>
\* (an entry stored without its time)
NewEntryUnstamped(key, t, cache_seconds) ==
    [has |-> TRUE, image |-> Rendered(key, t), time |-> 0]
\* lines 942-945
NewEntry(key, t, cache_seconds) ==
    [has |-> TRUE, image |-> Rendered(key, t), time |-> Bucket(t, cache_seconds)]
\* (an attempt that drops the entry before it fetches)
FailedAttemptDrops(images, key) == [images EXCEPT ![key] = NoEntry]
\* lines 949-950: the except clause logs and leaves the cache as it was
FailedAttempt(images, key) == images
\* line 940 -> sensors_weather.py:39: every api method is one requests.get,
\* made by the caller of stats()
ApiRequests == 1

\* initOk: fonts, background and icon files load (lines 884-916);
\* fetchOk: the api call and the draw call both return (lines 940-941)
WeatherTick(initOk, fetchOk) ==
    /\ ticks < MaxTicks
    /\ ticks' = ticks + 1
    /\ host' = "weather"
    /\ UNCHANGED <<now, clocks, feedVars, rssVars, wdraw, wconf>>
    /\ LET first == ~wcache.set
           off == first /\ (~wdraw.SHOW \/ ~(wconf.KEY /\ wconf.PUBLICID))
       IN
       IF off THEN
           /\ wcache' = WeatherDisabled
           /\ wout' = Quiet
       ELSE IF first /\ ~initOk THEN
           /\ wout' = [Quiet EXCEPT !.raised = TRUE]
           /\ UNCHANGED wcache
       ELSE IF ~first /\ ~wcache.show THEN
           /\ wout' = Quiet
           /\ UNCHANGED wcache
       ELSE
           LET c == IF first THEN WeatherFresh ELSE wcache
               dur == Duration(wdraw)
               index == WeatherIndex(now, dur)
               image_data == IMAGES_LIST[index + 1]
               key == image_data.key
               cache_seconds == image_data.cache_seconds
               miss == ~c.images[key].has \/ Expired(c.images[key], now, cache_seconds)
               images == IF ~miss THEN c.images
                         ELSE IF fetchOk
                         THEN [c.images EXCEPT ![key] = NewEntry(key, now, cache_seconds)]
                         ELSE FailedAttempt(c.images, key)
               changed == Changed(index, c.last_index)
               \* line 955: KeyError when the key has no entry
               keyError == changed /\ ~images[key].has
               image == images[key].image
               draws == changed /\ ~keyError
               blend == draws /\ BlendNow(wdraw, now, c.last_image)
           IN
           /\ wcache' = [c EXCEPT
                  !.images = images,
                  !.last_index = NextLast(@, index, draws, blend),
                  !.last_image = NextLast(@, image, draws, blend)]
           /\ wout' = [Quiet EXCEPT
                  !.raised = keyError,
                  !.frames = IF ~draws THEN << >>
                             ELSE IF blend THEN <<Blend(c.last_image, image, now)>>
                             ELSE <<Plain(image)>>,
                  !.fetched = IF miss THEN ApiRequests ELSE 0,
                  !.index = index,
                  !.at = now,
                  !.key = key,
                  !.render = IF ~miss THEN "hit" ELSE IF fetchOk THEN "ok" ELSE "failed"]

\* ------------------------------------------------------- the whole system
\* Theme and configuration as loaded at start.  DURATION absent reads as
\* DefaultDuration; a DURATION below MinDuration is clamped.
DrawConfigs ==
    { [SHOW |-> TRUE, DURATION |-> DefaultDuration, ANIMATION |-> FALSE],
      [SHOW |-> TRUE, DURATION |-> 1, ANIMATION |-> TRUE] }
Hidden == [SHOW |-> FALSE, DURATION |-> DefaultDuration, ANIMATION |-> FALSE]
WeatherConfigs == {[KEY |-> TRUE, PUBLICID |-> TRUE], [KEY |-> TRUE, PUBLICID |-> FALSE]}

\* on a slot boundary of every duration; half a second before the next slot
StartTimes == {Sec(1000), Sec(5009) + 1}
\* and five seconds into a bucket of ten minutes
WeatherStartTimes == StartTimes \cup {Sec(1205)}
\* the side cache of a configured title when the process starts
StartFiles(t) ==
    {FileAbsent, FileCorrupt(t - Sec(MinDuration)), FileOk(<<"b", "a">>, t - Sec(MinDuration))}
Configured(cfg, t) == \E i \in 1..Len(cfg) : TitleOf(cfg[i]) = t

\* Before the first stats() call: both caches empty, no Feed constructed.
InitIdle ==
    /\ clocks = 0
    /\ ticks = 0
    /\ host = ""
    /\ rcache = RssEmpty
    /\ rout = Quiet
    /\ wcache = WeatherEmpty
    /\ wout = Quiet

InitFiles ==
    \E fs \in StartFiles(now) :
        file = [t \in Titles |-> IF Configured(rss_config, t) THEN fs ELSE FileAbsent]

NoFeeds ==
    /\ ended = [f \in FeedIds |-> ""]
    /\ feed = [f \in FeedIds |-> NoFeed]
    /\ started = [f \in FeedIds |-> 0]
    /\ published = [f \in FeedIds |-> << >>]

\* The theme shows the weather graph and not the RSS text.
InitWeather ==
    /\ now \in WeatherStartTimes
    /\ wdraw \in DrawConfigs
    /\ wconf \in WeatherConfigs
    /\ rdraw = Hidden
    /\ rss_config = << >>
    /\ InitFiles
    /\ NoFeeds
    /\ thr = [t \in 1..HostThreads |-> FreeThread]
    /\ InitIdle

\* The theme shows the RSS text and not the weather graph.
InitRss ==
    /\ now \in StartTimes
    /\ wdraw = Hidden
    /\ wconf = [KEY |-> TRUE, PUBLICID |-> TRUE]
    /\ rdraw \in DrawConfigs
    /\ rss_config \in {c \in RssConfigs : \A i \in 1..Len(c) : c[i].LIMIT = DefaultLimit}
    /\ InitFiles
    /\ NoFeeds
    /\ thr = [t \in 1..HostThreads |-> FreeThread]
    /\ InitIdle

\* The Feed objects of a configuration just constructed (lines 13-32), with
\* the threads their get_items() of line 32 started.
InitFeed ==
    /\ now = Sec(5000) + 1
    /\ wdraw = Hidden
    /\ wconf = [KEY |-> TRUE, PUBLICID |-> TRUE]
    /\ rdraw = Hidden
    /\ rss_config \in {c \in RssConfigs : c # << >> /\ \A i \in 1..Len(c) : c[i].LIMIT < DefaultLimit}
    /\ InitFiles
    /\ \A i \in 1..Len(rss_config) : ~FeedInitRaises(rss_config[i])
    /\ feed = [f \in FeedIds |->
                 IF f <= Len(rss_config) THEN FeedInitObj(rss_config[f]) ELSE NoFeed]
    /\ started = [f \in FeedIds |-> IF feed[f].made /\ IsStale(feed[f], now) THEN 1 ELSE 0]
    /\ published = [f \in FeedIds |-> feed[f]._feeds]
    /\ ended = [f \in FeedIds |-> ""]
    /\ thr = [t \in 1..MaxThreads |-> FreeThread]
    /\ InitIdle

\* The Feed objects a restart constructs from the side-cache files, lines 986-992
RestartFeeds ==
    [f \in FeedIds |-> IF f <= Len(rss_config) THEN FeedInitObj(rss_config[f]) ELSE NoFeed]

WeatherStep == \E initOk \in BOOLEAN, fetchOk \in BOOLEAN : WeatherTick(initOk, fetchOk)

\* The Feed objects, their callers and their refresh threads.
NextFeed ==
    \/ \E d \in FeedDeltas : Advance(d)
    \/ \E f \in FeedIds : GetItems(f)
    \/ Worker
SpecFeed == InitFeed /\ [][NextFeed]_vars

\* The weather group under the host loop.
NextWeather ==
    \/ \E d \in WeatherDeltas : Advance(d)
    \/ WeatherStep
SpecWeather == InitWeather /\ [][NextWeather]_vars

\* The RSS group under the host loop, with its refresh threads.
NextRss ==
    \/ \E d \in Deltas : Advance(d)
    \/ RssTick
    \/ Worker
SpecRss == InitRss /\ [][NextRss]_vars

\* config.THEME_DATA and config.CONFIG_DATA are module globals that stats()
\* reads on its first call only (lines 876-877, 977-978); the host may load
\* another theme or configuration between two calls.
Reconfigure ==
    /\ ticks < MaxTicks
    /\ wdraw' \in DrawConfigs \cup {Hidden}
    /\ wconf' \in WeatherConfigs
    /\ rdraw' \in DrawConfigs \cup {Hidden}
    /\ rss_config' \in {c \in RssConfigs : \A i \in 1..Len(c) : c[i].LIMIT = DefaultLimit}
    /\ <<wdraw', wconf', rdraw', rss_config'>> # <<wdraw, wconf, rdraw, rss_config>>
    /\ UNCHANGED <<now, clocks, ticks, host, file, feed, started, thr, published, ended,
                   rcache, rout, wcache, wout>>

\* Any theme and configuration at start, every side cache readable.
InitConfig ==
    /\ now = Sec(1000)
    /\ wdraw \in DrawConfigs \cup {Hidden}
    /\ wconf \in WeatherConfigs
    /\ rdraw \in DrawConfigs \cup {Hidden}
    /\ rss_config \in {c \in RssConfigs : \A i \in 1..Len(c) : c[i].LIMIT = DefaultLimit}
    /\ file = [t \in Titles |-> FileOk(<<"b", "a">>, now - Sec(MinDuration))]
    /\ NoFeeds
    /\ thr = [t \in 1..HostThreads |-> FreeThread]
    /\ InitIdle

\* Both groups under a host that changes the configuration.
NextConfig ==
    \/ \E d \in Deltas : Advance(d)
    \/ WeatherStep
    \/ RssTick
    \/ Reconfigure
SpecConfig == InitConfig /\ [][NextConfig]_vars

\* The RSS group alone, the clock going on by a second or by a slot of the
\* default duration, long enough for the index to come back to 0.
SlotDeltas == {Sec(1), Sec(DefaultDuration)}
Pass(d) ==
    /\ clocks < MaxRotationClock
    /\ clocks' = clocks + 1
    /\ now' = now + d
    /\ UNCHANGED <<ticks, host, feedVars, rssVars, weatherVars>>
RssRotate ==
    /\ ticks < MaxRotationTicks
    /\ RssStats
NextRotation ==
    \/ \E d \in SlotDeltas : Pass(d)
    \/ RssRotate
SpecRotation == InitRss /\ [][NextRotation]_vars

\* Both groups: the theme shows one of them.
Init == InitWeather \/ InitRss
Next ==
    \/ \E d \in Deltas : Advance(d)
    \/ WeatherStep
    \/ RssTick
    \/ Worker
Spec == Init /\ [][Next]_vars

\* ================================================================ claims
WeatherCalled == ticks' = ticks + 1 /\ host' = "weather"
RssCalled == ticks' = ticks + 1 /\ host' = "rss"
GetItemsCalled == ticks' = ticks + 1 /\ host' = "get_items"

\* C1 (as claimed): at any moment at most one fetch (feedparser.parse) of a
\* Feed is in flight, under every interleaving of its _update threads.
C1_OneFetchInFlight == \A f \in FeedIds : Cardinality(InFlight(f)) <= 1

C3_FlagOnlyWhileRefreshing == \A f \in FeedIds : feed[f]._updating => Running(f) # {}

\* C4: get_items does not wait for a refresh and fetches nothing itself:
\* whatever the threads are doing, it returns the first limit items of the
\* list last published (line 67, or the seed), and no thread moves.
C4_GetItemsDoesNotWait ==
    [][GetItemsCalled =>
          /\ \A f \in rout'.called : rout'.got[f] = Take(published[f], feed[f].limit)
          /\ rout'.fetched = 0
          /\ thr' = thr /\ feed' = feed]_vars
\* get_items has returned items while a refresh of its Feed was running
C4_Witness ==
    /\ host = "get_items"
    /\ \E f \in rout.busy : rout.got[f] # << >>

\* C5 (as claimed): no stats() call makes a remote request on the thread
\* that called it.
C5_NoFetchOnPollingThread == wout.fetched = 0 /\ rout.fetched = 0

\* C6 (as claimed): a Weather tick whose slot has no cached image and whose
\* fetch or render fails draws nothing, leaves last_index and last_image as
\* they were, and returns normally.
C6_FailedFirstRenderSkipsTick ==
    [][(WeatherCalled /\ wout'.render = "failed" /\ ~wcache.images[wout'.key].has) =>
          /\ ~wout'.raised
          /\ wout'.frames = << >>
          /\ wcache'.last_index = wcache.last_index
          /\ wcache'.last_image = wcache.last_image]_vars

\* C7: a Weather tick whose fetch or render fails while its key has an entry
\* keeps the entry (image and time), lets no exception out, and draws, when
\* it draws, the image of that entry.
C7_FailedRenderKeepsEntry ==
    [][(WeatherCalled /\ wout'.render = "failed" /\ wcache.images[wout'.key].has) =>
          /\ wcache'.images[wout'.key] = wcache.images[wout'.key]
          /\ ~wout'.raised
          /\ wout'.index # wcache.last_index => wout'.frames # << >>
          /\ \A i \in 1..Len(wout'.frames) :
                 wout'.frames[i].new = wcache.images[wout'.key].image]_vars
\* a failed attempt on an expired entry, whose old image was then drawn
C7_Witness == host = "weather" /\ wout.render = "failed" /\ wout.frames # << >>

\* C8 (as claimed): no stats() call lets an exception out to the host loop.
C8_NoTickRaises == ~wout.raised /\ ~rout.raised

\* C9: the index a tick computes lies in [0, itemCount), and from one tick
\* of a group to its next the index advances, cyclically, by the number of
\* slots that went by (so by 0 or 1 when at most one slot went by).
C9_IndexInRangeAndCyclic ==
    [][/\ (WeatherCalled /\ wout'.index # -1) =>
             LET n == Len(IMAGES_LIST)
                 dur == Duration(wdraw) IN
             /\ wout'.index \in 0..(n - 1)
             /\ wout.index # -1 =>
                    /\ wout'.at >= wout.at
                    /\ (wout'.index - wout.index) % n
                          = (Slot(wout'.at, dur) - Slot(wout.at, dur)) % n
       /\ (RssCalled /\ rout'.index # -1) =>
             LET n == Len(rcache.item_list)
                 dur == Duration(rdraw) IN
             /\ rcache'.item_list # << >> => rout'.index \in 0..(Len(rcache'.item_list) - 1)
             /\ (rout.index # -1 /\ n > 0) =>
                    /\ rout'.index \in 0..(n - 1)
                    /\ rout'.at >= rout.at
                    /\ (rout'.index - rout.index) % n
                          = (Slot(rout'.at, dur) - Slot(rout.at, dur)) % n]_vars
\* an Rss tick has moved from item 0 to item 1 of a list of three
C9_Witness == host = "rss" /\ rout.index = 1 /\ Len(rcache.item_list) = 3

TtlOf(index) == IMAGES_LIST[index + 1].cache_seconds

\* C11 (as claimed): the index is a function of now, the duration and the
\* items alone: a running instance selects the index that an instance
\* restarted at the same now, and holding the same items, selects.
C11_IndexOfClockAlone ==
    [][/\ (WeatherCalled /\ wout'.index # -1) =>
             wout'.index = WeatherIndex(now', Duration(wdraw))
       /\ (RssCalled /\ rout'.index # -1 /\ rcache'.item_list # << >>
              /\ \A i \in 1..Len(rss_config) : ~FeedInitRaises(rss_config[i])
              /\ rcache'.item_list = BuildItems(RestartFeeds, Len(rss_config))) =>
             rout'.index = RssIndex(now', Duration(rdraw), RssFresh.item_list, RssFresh.offset)]_vars

\* C12: a Weather tick that finds an entry for its key with
\* now - time <= cache_seconds makes no request, renders nothing and leaves
\* the cache as it is; an entry that exists is replaced only by a tick on
\* its key with now - time > cache_seconds.
C12_FreshEntryIsServed ==
    [][(WeatherCalled /\ wout'.index # -1) =>
          LET k == wout'.key
              ttl == TtlOf(wout'.index) * SubSec
              e == wcache.images[k] IN
          /\ (e.has /\ now' - e.time <= ttl) =>
                 /\ wout'.render = "hit"
                 /\ wout'.fetched = 0
                 /\ wcache'.images = wcache.images
          /\ \A k2 \in Keys :
                 (wcache.images[k2].has /\ wcache'.images[k2] # wcache.images[k2]) =>
                     k2 = k /\ now' - e.time > ttl]_vars
\* a hit on an entry whose age is exactly its cache_seconds
C12_Witness ==
    /\ host = "weather" /\ wout.render = "hit"
    /\ wcache.images[wout.key].has
    /\ wout.at - wcache.images[wout.key].time = TtlOf(wout.index) * SubSec

\* C13 (as claimed): of two ticks on the same slot whose now values lie in
\* the same bucket of the slot's cache_seconds, at most one invokes the
\* fetch-and-render of lines 940-941.
C13_OneRenderPerBucket ==
    [][(WeatherCalled /\ wout.index # -1 /\ wout'.index = wout.index
          /\ wout.render # "hit"
          /\ now' \div (TtlOf(wout.index) * SubSec) = wout.at \div (TtlOf(wout.index) * SubSec)) =>
             wout'.render = "hit"]_vars

\* C13 (amended): of two ticks on the same slot whose now values lie in
\* the same bucket of the slot's cache_seconds, the second makes no request
\* and renders nothing if the first stored an entry.
C13_NoRenderAfterRender ==
    [][(WeatherCalled /\ wout.index # -1 /\ wout'.index = wout.index
          /\ wout.render = "ok"
          /\ now' \div (TtlOf(wout.index) * SubSec) = wout.at \div (TtlOf(wout.index) * SubSec)) =>
             /\ wout'.render = "hit"
             /\ wout'.fetched = 0
             /\ wcache'.images = wcache.images]_vars
\* a hit on an entry rendered earlier in the bucket this tick is in
C13_Witness ==
    /\ host = "weather" /\ wout.render = "hit"
    /\ wcache.images[wout.key].has
    /\ wcache.images[wout.key].image[2] < wout.at
    /\ wcache.images[wout.key].image[2] \div (TtlOf(wout.index) * SubSec)
           = wout.at \div (TtlOf(wout.index) * SubSec)

\* C14: an entry stored by a tick records floor(now / ttl) * ttl, a
\* multiple of ttl not after now and less than ttl before it; with ttl = 600
\* the entry rendered at 1205 records 1200, is served at 1790 and is
\* expired at 1810.
C14_EntryTimeIsBucketed ==
    [][(WeatherCalled /\ wout'.render = "ok") =>
          LET ttl == TtlOf(wout'.index) * SubSec
              e == wcache'.images[wout'.key] IN
          /\ e.has
          /\ e.time = (now' \div ttl) * ttl
          /\ e.time <= now' /\ now' - e.time < ttl
          /\ (now' = 1205 * SubSec /\ TtlOf(wout'.index) = 600) =>
                 /\ e.time = 1200 * SubSec
                 /\ ~Expired(e, 1790 * SubSec, 600)
                 /\ Expired(e, 1810 * SubSec, 600)]_vars
\* the tick at 1205 has rendered the entry of a key with ttl 600
C14_Witness ==
    /\ host = "weather" /\ wout.render = "ok" /\ wout.at = 1205 * SubSec
    /\ TtlOf(wout.index) = 600
    /\ wcache.images[wout.key].time = 1200 * SubSec

\* C15: a group whose first tick finds it not enabled (area not shown,
\* Weather key or public id missing, no feed configured) is disabled from
\* then on: every later tick requests nothing, renders nothing, draws
\* nothing and changes nothing, whatever the configuration has become.
C15_DisabledForGood ==
    [][/\ (WeatherCalled /\ ~wcache.set
              /\ (~wdraw.SHOW \/ ~(wconf.KEY /\ wconf.PUBLICID))) =>
             wcache'.set /\ ~wcache'.show /\ wout' = Quiet
       /\ (WeatherCalled /\ wcache.set /\ ~wcache.show) =>
             wcache' = wcache /\ wout' = Quiet
       /\ (RssCalled /\ ~rcache.set /\ (~rdraw.SHOW \/ rss_config = << >>)) =>
             /\ rcache'.set /\ ~rcache'.show /\ rout' = Quiet
             /\ feed' = feed /\ started' = started
       /\ (RssCalled /\ rcache.set /\ ~rcache.show) =>
             /\ rcache' = rcache /\ rout' = Quiet
             /\ feed' = feed /\ started' = started]_vars
\* the last of the ticks found Weather disabled under a configuration that
\* enables it (the configuration cannot change once the ticks are used up)
C15_Witness ==
    /\ ticks = MaxTicks /\ host = "weather"
    /\ wcache.set /\ ~wcache.show
    /\ wdraw.SHOW /\ wconf.KEY /\ wconf.PUBLICID

\* the frames of a tick that show an item (the loading text shows none)
ShowsItem(fr) == fr.kind = "blend" \/ fr.new # TextImage(Loading)
Draws(frames) == Len(SelectSeq(frames, ShowsItem))
HasBlend(frames) == \E i \in 1..Len(frames) : frames[i].kind = "blend"

\* C16: a tick whose index equals last_index draws nothing and leaves
\* last_index and last_image as they were.
C16_SameIndexNoDraw ==
    [][/\ (WeatherCalled /\ wout'.index # -1 /\ wout'.index = wcache.last_index) =>
             /\ wout'.frames = << >>
             /\ wcache'.last_index = wcache.last_index
             /\ wcache'.last_image = wcache.last_image
       /\ (RssCalled /\ rout'.index # -1 /\ rout'.index = rcache.last_index) =>
             /\ rout'.frames = << >>
             /\ rcache'.last_index = rcache.last_index
             /\ rcache'.last_image = rcache.last_image]_vars
\* an Rss tick on the item it shows already: it rebuilt the list, drew nothing
C16_Witness ==
    /\ host = "rss" /\ rout.index # -1 /\ rout.index = rcache.last_index
    /\ rout.called # {} /\ rout.frames = << >>

\* C17 (as claimed): two ticks of a group, one after the other, that compute
\* the same index draw at most one item frame between them.
C17_OneDrawPerIndex ==
    [][/\ (WeatherCalled /\ wout.index # -1 /\ wout'.index = wout.index) =>
             Draws(wout.frames) + Draws(wout'.frames) <= 1
       /\ (RssCalled /\ rout.index # -1 /\ rout'.index = rout.index) =>
             Draws(rout.frames) + Draws(rout'.frames) <= 1]_vars
\* C17 (amended): two ticks of a group, one after the other, that compute
\* the same index and of which neither draws a crossfade draw at most one
\* item frame between them.
C17_OneDrawOutsideCrossfade ==
    [][/\ (WeatherCalled /\ wout.index # -1 /\ wout'.index = wout.index
              /\ ~HasBlend(wout.frames) /\ ~HasBlend(wout'.frames)) =>
             Draws(wout.frames) + Draws(wout'.frames) <= 1
       /\ (RssCalled /\ rout.index # -1 /\ rout'.index = rout.index
              /\ ~HasBlend(rout.frames) /\ ~HasBlend(rout'.frames)) =>
             Draws(rout.frames) + Draws(rout'.frames) <= 1]_vars
\* a Weather tick on the index whose image, rendered at an earlier time, is
\* the one on the display: it drew nothing
C17_Witness ==
    /\ host = "weather" /\ wout.render = "hit" /\ wout.frames = << >>
    /\ wout.index = wcache.last_index
    /\ wcache.last_image = wcache.images[wout.key].image
    /\ wcache.last_image[2] < wout.at

\* C18 (as claimed): a call of stats() at the now of the call before it
\* leaves the cache of its group as it was and draws nothing.
C18_SecondCallChangesNothing ==
    [][/\ (WeatherCalled /\ wout.index # -1 /\ wout.at = now') =>
             wcache' = wcache /\ wout'.frames = << >>
       /\ (RssCalled /\ rout.index # -1 /\ rout.at = now') =>
             rcache' = rcache /\ rout'.frames = << >>]_vars
\* C18 (amended): a call of stats() at the now of the call before it leaves
\* the cache of its group as it was, provided that call's lookup was a hit
\* or a render that succeeded (Weather) and the feeds return what the item
\* list was built from (Rss); it draws nothing, or, when the call before it
\* drew a crossfade, the same frames again.
C18_SecondCallRepeats ==
    [][/\ (WeatherCalled /\ wout.index # -1 /\ wout.at = now'
              /\ wout.render \in {"hit", "ok"}) =>
             /\ wcache' = wcache
             /\ wout'.fetched = 0
             /\ \/ wout'.frames = << >>
                \/ HasBlend(wout.frames) /\ wout'.frames = wout.frames
       /\ (RssCalled /\ rout.index # -1 /\ rout.at = now'
              /\ BuildItems(feed, Len(rss_config)) = rcache.item_list) =>
             /\ rcache' = rcache
             /\ \/ rout'.frames = << >>
                \/ HasBlend(rout.frames) /\ rout'.frames = rout.frames]_vars
\* a Weather call that found the entry rendered by an earlier call at the
\* same now, and drew nothing
C18_Witness ==
    /\ host = "weather" /\ wout.render = "hit" /\ wout.frames = << >>
    /\ wcache.images[wout.key].image = Rendered(wout.key, wout.at)

\* C19 (as claimed): the first Rss tick constructs every Feed even when a
\* side-cache file cannot be loaded: such a Feed starts with no items and
\* _updated = 0, a refresh of it is started, and no exception leaves the
\* call.
C19_CorruptCacheIsAbsent ==
    [][(RssCalled /\ ~rcache.set /\ rdraw.SHOW
          /\ \E i \in 1..Len(rss_config) : FeedInitRaises(rss_config[i])) =>
             /\ ~rout'.raised
             /\ rcache'.show
             /\ \A i \in 1..Len(rss_config) :
                    /\ feed'[i].made
                    /\ FeedInitRaises(rss_config[i]) =>
                           /\ feed'[i]._feeds = << >>
                           /\ feed'[i]._updated = 0
                           /\ started'[i] >= 1]_vars

\* C20 (as claimed): _feeds and _updated of a Feed change in one step: the
\* step that stores new items stores the time of the refresh with them, so
\* that no state a reader can see holds the new _feeds and the old _updated.
C20_AtomicPublish ==
    [][\A f \in FeedIds :
          (feed[f].made /\ feed'[f]._feeds # feed[f]._feeds) =>
              feed'[f]._updated = now']_vars

\* C21 (as claimed): the refreshes of a Feed publish in the order they were
\* started: when a refresh stores its items (line 67), no refresh of that
\* Feed started after it has stored its items already.
C21_PublishedInIssueOrder ==
    [][\A t \in ThreadIds :
          (thr[t].pc = "publish" /\ thr'[t].pc = "stamp") =>
              ~\E u \in ThreadIds :
                  /\ thr[u].feed = thr[t].feed
                  /\ thr[u].pc = "stamp"
                  /\ t \in thr[u].after]_vars

\* C22 (as claimed): no two threads are in the write of lines 61-64 on the
\* same side-cache file at once.
C22_OneWriterPerFile ==
    \A x \in Titles :
        Cardinality({t \in ThreadIds : thr[t].pc = "write" /\ thr[t].title = x}) <= 1

\* C23: without ANIMATION, a tick whose index differs from last_index and
\* whose image (Weather: the entry of the key; Rss: the text of the item) is
\* there draws that image, and nothing else of the items, and sets
\* last_index to the index and last_image to the image.
C23_PlainTransition ==
    [][/\ (WeatherCalled /\ ~wdraw.ANIMATION /\ wout'.index # -1
              /\ wout'.index # wcache.last_index
              /\ wcache'.images[wout'.key].has) =>
             LET image == wcache'.images[wout'.key].image IN
             /\ wout'.frames = <<[kind |-> "plain", old |-> << >>, new |-> image, alpha |-> 0]>>
             /\ wcache'.last_index = wout'.index
             /\ wcache'.last_image = image
       /\ (RssCalled /\ ~rdraw.ANIMATION /\ rout'.index # -1
              /\ rout'.index # rcache.last_index
              /\ rcache'.item_list # << >>) =>
             LET image == <<rcache'.item_list[rout'.index + 1]>> IN
             /\ SelectSeq(rout'.frames, ShowsItem)
                    = <<[kind |-> "plain", old |-> << >>, new |-> image, alpha |-> 0]>>
             /\ rcache'.last_index = rout'.index
             /\ rcache'.last_image = image]_vars
\* without ANIMATION the first Rss tick has drawn the title of the feed
C23_Witness ==
    /\ host = "rss" /\ ~rdraw.ANIMATION
    /\ Draws(rout.frames) = 1 /\ ~HasBlend(rout.frames)
    /\ rcache.last_index = rout.index
    /\ rcache.last_image = <<rcache.item_list[rout.index + 1]>>

\* C24: a tick that draws a crossfade leaves last_index and last_image as
\* they were; a tick that changes either has drawn the plain image it then
\* holds as last_image, and no crossfade.
C24_CrossfadeKeepsLast ==
    [][/\ (WeatherCalled /\ HasBlend(wout'.frames)) =>
             /\ wdraw.ANIMATION
             /\ wcache'.last_index = wcache.last_index
             /\ wcache'.last_image = wcache.last_image
       /\ (WeatherCalled
              /\ <<wcache'.last_index, wcache'.last_image>>
                     # <<wcache.last_index, wcache.last_image>>) =>
             wout'.frames = <<[kind |-> "plain", old |-> << >>,
                               new |-> wcache'.last_image, alpha |-> 0]>>
       /\ (RssCalled /\ HasBlend(rout'.frames)) =>
             /\ rdraw.ANIMATION
             /\ rcache'.last_index = rcache.last_index
             /\ rcache'.last_image = rcache.last_image
       /\ (RssCalled
              /\ <<rcache'.last_index, rcache'.last_image>>
                     # <<rcache.last_index, rcache.last_image>>) =>
             SelectSeq(rout'.frames, ShowsItem) = <<[kind |-> "plain", old |-> << >>,
                               new |-> rcache'.last_image, alpha |-> 0]>>]_vars
\* a Weather tick has drawn a crossfade to an index that is not last_index
C24_Witness ==
    /\ host = "weather" /\ HasBlend(wout.frames)
    /\ wcache.last_index # wout.index /\ wcache.last_index # -1

\* C25 (as claimed): a transition that a crossfade began is completed in
\* its slot: when the next tick comes after the slot has ended, and no later
\* than one duration after the tick that drew the crossfade, last_index is
\* the index of that slot.
C25_TransitionCompletes ==
    [][/\ (WeatherCalled /\ wout.index # -1 /\ HasBlend(wout.frames)
              /\ Slot(now', Duration(wdraw)) > Slot(wout.at, Duration(wdraw))
              /\ now' - wout.at <= Duration(wdraw) * SubSec) =>
             wcache.last_index = wout.index
       /\ (RssCalled /\ rout.index # -1 /\ HasBlend(rout.frames)
              /\ Slot(now', Duration(rdraw)) > Slot(rout.at, Duration(rdraw))
              /\ now' - rout.at <= Duration(rdraw) * SubSec) =>
             rcache.last_index = rout.index]_vars

\* the duration of a theme entry, by the rule of the claims: 2 below 2
Clamped(draw) == IF draw.DURATION < 2 THEN 2 ELSE draw.DURATION

\* C26: a crossfade is drawn only by a tick with ANIMATION on, an index
\* that differs from last_index, int(now) a multiple of the duration and a
\* last_image: never as the first draw of a group, and never in a later
\* second of the slot.
C26_CrossfadeOnlyAtBoundary ==
    [][/\ (WeatherCalled /\ HasBlend(wout'.frames)) =>
             /\ wdraw.ANIMATION
             /\ wout'.index # wcache.last_index
             /\ (now' \div SubSec) % Clamped(wdraw) = 0
             /\ wcache.last_index # -1 /\ wcache.last_image # << >>
       /\ (RssCalled /\ HasBlend(rout'.frames)) =>
             /\ rdraw.ANIMATION
             /\ rout'.index # rcache.last_index
             /\ (now' \div SubSec) % Clamped(rdraw) = 0
             /\ rcache.last_index # -1 /\ rcache.last_image # << >>]_vars
\* an Rss tick in the first second of a slot has drawn a crossfade
C26_Witness ==
    /\ host = "rss" /\ HasBlend(rout.frames)
    /\ (rout.at \div SubSec) % Clamped(rdraw) = 0

\* C27 (as claimed): a Feed whose refresh failed can be refreshed again: a
\* thread started by get_items returns at line 42 without fetching only
\* while another refresh of the Feed is running.
C27_RetryAfterFailure ==
    [][\A f \in FeedIds :
          (started'[f] < started[f] /\ thr' = thr) => Running(f) # {}]_vars

\* C28: the first Rss tick gives a Feed whose side-cache file can be read
\* the items of the file and, as _updated, the time of the file, and starts
\* no refresh of it while now - _updated <= 1800; a refresh is started only
\* at now - _updated > 1800.
C28_SeededFromFile ==
    [][/\ (RssCalled /\ ~rcache.set /\ rcache'.show) =>
             \A i \in 1..Len(rss_config) :
                 LET fl == file[TitleOf(rss_config[i])] IN
                 fl.kind = "ok" =>
                     /\ feed'[i]._feeds = fl.items
                     /\ feed'[i]._updated = fl.mtime
                     /\ now' - fl.mtime <= 1800 * SubSec => started'[i] = 0
       /\ \A f \in FeedIds :
             started'[f] > started[f] => now' - feed'[f]._updated > 1800 * SubSec]_vars
\* a Feed seeded from its file, for which no refresh has been started
C28_Witness ==
    /\ host = "rss" /\ feed[1].made
    /\ file[feed[1].title].kind = "ok"
    /\ feed[1]._feeds = file[feed[1].title].items /\ feed[1]._feeds # << >>
    /\ feed[1]._updated = file[feed[1].title].mtime
    /\ started[1] = 0 /\ ended[1] = "" /\ \A t \in ThreadIds : thr[t].pc = "free"

\* C29: the write of the side cache never ends a refresh: whether it
\* succeeds or fails the thread goes on to store its items in _feeds, then
\* sets _updated, clears _updating and returns True.
C29_WriteFailureIsLogged ==
    [][\A t \in ThreadIds :
          LET f == thr[t].feed IN
          /\ (thr[t].pc = "write" /\ thr'[t].pc # "write") =>
                 /\ thr'[t].pc = "publish" /\ thr'[t].items = thr[t].items
                 /\ feed' = feed /\ ended' = ended
          /\ (thr[t].pc = "publish" /\ thr'[t].pc # "publish") =>
                 /\ thr'[t].pc = "stamp"
                 /\ feed'[f]._feeds = thr[t].items
          /\ (thr[t].pc = "stamp" /\ thr'[t].pc # "stamp") =>
                 /\ thr'[t].pc = "free"
                 /\ feed'[f]._updated = now /\ ~feed'[f]._updating
                 /\ ended'[f] = "done"]_vars
\* a refresh has returned True with its items stored and the file still absent
C29_Witness ==
    \E f \in FeedIds :
        /\ ended[f] = "done" /\ feed[f]._feeds # << >>
        /\ ~feed[f]._updating /\ feed[f]._updated = now
        /\ file[feed[f].title].kind = "absent"

\* C30: the duration is max(2, DURATION): a DURATION below 2 gives 2, the
\* index of a tick is then taken from slots of two seconds, and it differs
\* from the index of the tick before only if a slot of two seconds began in
\* between.
C30_DurationClamped ==
    [][/\ \A d \in (0 - 1)..1 : Duration([Hidden EXCEPT !.DURATION = d]) = 2
       /\ (WeatherCalled /\ wdraw.DURATION < 2 /\ wout'.index # -1) =>
             /\ wout'.index = ((now' \div SubSec) \div 2) % Len(IMAGES_LIST)
             /\ (wout.index # -1 /\ wout'.index # wout.index) =>
                    (now' \div SubSec) \div 2 > (wout.at \div SubSec) \div 2
       /\ (RssCalled /\ rdraw.DURATION < 2 /\ rout'.index # -1
              /\ rout.index # -1 /\ rout'.index # rout.index) =>
             (now' \div SubSec) \div 2 > (rout.at \div SubSec) \div 2]_vars
\* DURATION 1: a tick in the second second of a slot found the entry that
\* the tick one second before it had rendered
C30_Witness ==
    /\ host = "weather" /\ wdraw.DURATION < 2 /\ wout.render = "hit"
    /\ (wout.at \div SubSec) % 2 = 1
    /\ wcache.images[wout.key].image[2] = wout.at - SubSec

\* C31 (as claimed): a fetch of a Feed starts only while the Feed is stale:
\* a thread that get_items started, and that finds no other thread of the
\* Feed inside _update, passes line 41 on its way to the parse of line 46
\* only if now - _updated > 1800 still holds at that moment.
C31_FetchOnlyWhileStale ==
    [][\A f \in FeedIds :
          (started'[f] < started[f] /\ thr' # thr
              /\ \A u \in ThreadIds : thr[u].feed # f) =>
                 now - feed[f]._updated > 1800 * SubSec]_vars

\* C32 (as claimed): after a tick of an enabled Weather group without
\* ANIMATION, the image last given to the display (last_image) is the image
\* the cache holds for the key of the tick.
C32_DisplayedIsCached ==
    [][(WeatherCalled /\ ~wdraw.ANIMATION /\ wout'.index # -1
          /\ wcache'.images[wout'.key].has) =>
             wcache'.last_image = wcache'.images[wout'.key].image]_vars

\* C33 (as claimed): a tick of a group gives the display at most one frame
\* of an item, with or without ANIMATION.
C33_OneFramePerTick ==
    [][/\ WeatherCalled => Draws(wout'.frames) <= 1
       /\ RssCalled => Draws(rout'.frames) <= 1]_vars

\* C34: an Rss tick that reads item_list[index] has 0 <= index <
\* len(item_list), so line 1028 raises no IndexError, whatever the clock did
\* and whatever the feeds hold since the list was built.
C34_IndexInList ==
    [][(RssCalled /\ rout'.index # -1) =>
          /\ rout'.index >= 0
          /\ rcache'.item_list # << >> =>
                 /\ rout'.index < Len(rcache'.item_list)
                 /\ ~rout'.raised]_vars
\* a tick has read item 1 of a list of three while the feed, refreshed since
\* the list was built, holds one item
C34_Witness ==
    /\ host = "rss" /\ rout.index = 1 /\ rout.called = {} /\ rout.frames # << >>
    /\ Len(rcache.item_list) = 3
    /\ Len(BuildItems(feed, Len(rss_config))) = 2

\* C35 (as claimed): between two rebuilds of item_list, with a tick in
\* every slot, the items are drawn in the order of the list, each once: the
\* first tick of a slot is on the item after the one before and draws it in
\* one frame, a later tick of the slot draws nothing, and the list is
\* rebuilt only by a tick whose index is 0.
C35_InOrderOncePerSlot ==
    [][(RssCalled /\ rout'.index # -1 /\ rcache'.item_list # << >>) =>
          /\ rout'.called # {} => rout'.index = 0
          /\ (rout.index # -1 /\ rcache.item_list # << >>) =>
                LET dur == Duration(rdraw)
                    n == Len(rcache.item_list) IN
                /\ Slot(now', dur) = Slot(rout.at, dur) + 1 =>
                       /\ rout'.index = (rout.index + 1) % n
                       /\ rout'.frames = <<[kind |-> "plain", old |-> << >>,
                              new |-> <<rcache'.item_list[rout'.index + 1]>>, alpha |-> 0]>>
                /\ Slot(now', dur) = Slot(rout.at, dur) => rout'.frames = << >>]_vars
\* C35 (amended): the same, for a group without ANIMATION.
C35_InOrderOncePerSlotPlain ==
    [][(RssCalled /\ ~rdraw.ANIMATION /\ rout'.index # -1 /\ rcache'.item_list # << >>) =>
          /\ rout'.called # {} => rout'.index = 0
          /\ (rout.index # -1 /\ rcache.item_list # << >>) =>
                LET dur == Duration(rdraw)
                    n == Len(rcache.item_list) IN
                /\ Slot(now', dur) = Slot(rout.at, dur) + 1 =>
                       /\ rout'.index = (rout.index + 1) % n
                       /\ rout'.frames = <<[kind |-> "plain", old |-> << >>,
                              new |-> <<rcache'.item_list[rout'.index + 1]>>, alpha |-> 0]>>
                       /\ rcache'.last_index = rout'.index
                /\ Slot(now', dur) = Slot(rout.at, dur) => rout'.frames = << >>]_vars
\* without ANIMATION the fourth tick, three slots after the first, is on
\* index 0 again: it has rebuilt the list and drawn its first item, which a
\* tick on another item had replaced
C35_Witness ==
    /\ host = "rss" /\ ~rdraw.ANIMATION /\ ticks = 4 /\ clocks = 3
    /\ rout.index = 0 /\ rout.called # {} /\ Len(rcache.item_list) = 3
    /\ rcache.offset = Slot(Sec(1000), Duration(rdraw)) + 3
    /\ rout.frames = <<[kind |-> "plain", old |-> << >>,
                        new |-> <<rcache.item_list[1]>>, alpha |-> 0]>>

\* C36: an Rss tick whose index is not 0 leaves item_list and offset as
\* they were, calls get_items on no feed and starts no thread, and what it
\* draws is an item of the list as it was; item_list changes in no step but
\* a tick whose index is 0, which calls get_items on every feed.
C36_NoRebuildOffZero ==
    [][/\ (RssCalled /\ rout'.index > 0) =>
             /\ rcache'.item_list = rcache.item_list
             /\ rcache'.offset = rcache.offset
             /\ rout'.called = {}
             /\ started' = started /\ feed' = feed /\ thr' = thr
             /\ \A i \in 1..Len(rout'.frames) :
                    rout'.frames[i].new = <<rcache.item_list[rout'.index + 1]>>
       /\ rcache'.item_list # rcache.item_list =>
             /\ RssCalled /\ rout'.index = 0
             /\ rout'.called = 1..Len(rss_config)]_vars
\* a tick on item 1 has drawn "b" of the list built before the refresh that
\* left the feed with the one item "a"
C36_Witness ==
    /\ host = "rss" /\ rout.index > 0 /\ rout.called = {}
    /\ feed[1]._feeds = <<"a">> /\ ended[1] = "done"
    /\ rcache.item_list = <<"u1", "b", "a">>
    /\ \E i \in 1..Len(rout.frames) : rout.frames[i].new = <<"b">>

\* C37: a Weather tick whose fetch or render fails stores nothing (no
\* entry, no time of the failure), and every tick whose key has no entry, or
\* an entry with now - time > cache_seconds, makes the request again,
\* however many attempts have failed before it.
C37_FailedAttemptRepeats ==
    [][/\ (WeatherCalled /\ wout'.render = "failed") =>
             /\ wcache'.images = wcache.images
             /\ wout'.fetched = 1
       /\ (WeatherCalled /\ wout'.index # -1) =>
             LET e == wcache.images[wout'.key] IN
             (~e.has \/ now' - e.time > TtlOf(wout'.index) * SubSec) =>
                 /\ wout'.render \in {"ok", "failed"}
                 /\ wout'.fetched = 1]_vars
\* the last of the ticks has made the request and failed, at the time of
\* the first tick, and the cache holds no entry: every attempt has failed
C37_Witness ==
    /\ ticks = MaxTicks /\ clocks = 0 /\ host = "weather"
    /\ wcache.show /\ wout.render = "failed" /\ wout.fetched = 1
    /\ \A k \in Keys : ~wcache.images[k].has

\* C38: in every state of an enabled group, last_index is -1 exactly when
\* last_image is None.
C38_LastPair ==
    /\ wcache.show => (wcache.last_index = -1 <=> wcache.last_image = << >>)
    /\ rcache.show => (rcache.last_index = -1 <=> rcache.last_image = << >>)
\* after a tick that drew a crossfade to item 1, the pair is still that of
\* item 0
C38_Witness ==
    /\ host = "rss" /\ rout.index = 1 /\ HasBlend(rout.frames)
    /\ rcache.last_index = 0 /\ rcache.last_image = <<rcache.item_list[1]>>

====
